---- MODULE Spec2Model ----
(***************************************************************************)
(* Reverse-mode automatic differentiation over scalar Values, the          *)
(* Neuron / Layer / MLP composition built on it, and the training loop of  *)
(* src/main.py.                                                            *)
(*                                                                         *)
(* Numbers.  Python floats are modelled as decimal fixed point: a number x *)
(* is stored as the integer x * Scale.  Sums are exact; a product or a     *)
(* quotient is rounded to the nearest representable number, as IEEE        *)
(* arithmetic rounds to the nearest double.  Whole numbers of small size   *)
(* are therefore computed exactly, as they are by the program.             *)
(*                                                                         *)
(* Objects.  Every Value is a slot of the arena `nodes`; its index is its  *)
(* identity.  A closure `_backward` is the rule selected by the node's     *)
(* operation tag, reading the operands the closure captured (l, r, n).     *)
(***************************************************************************)
EXTENDS Integers, Sequences, FiniteSets

VARIABLES
    nodes,    \* the Values alive, in order of construction
    pc,       \* position of the running script
    root,     \* the Value backward() was called on (0: none)
    topo,     \* backward(): the list built by build_topo
    idx,      \* backward(): how many entries of reversed(topo) are still to run
    calls,    \* the nodes whose _backward has been invoked, in order, this run
    err,      \* the exception that ended the last call ("" none)
    runs,     \* how many times backward() has been called on this graph
    saved,    \* the gradients as they were just before the driver's last reset
    lastOp,   \* the operation last applied (name, operands, argument)
    net,      \* the MLP: a sequence of layers, each a sequence of neurons
    rng,      \* state of the random generator
    inp,      \* the input vector of the call in progress
    res,      \* what the last Neuron / Layer / MLP call returned
    epoch,    \* training loop: k
    loss      \* training loop: the Value `loss` (0: none)

vars == <<nodes, pc, root, topo, idx, calls, err, runs, saved, lastOp,
          net, rng, inp, res, epoch, loss>>

(***************************************************************************)
(* Bounds of the model.                                                    *)
(***************************************************************************)
MaxNodes == 4       \* Values built by the expression scripts of Spec
MaxExp == 2         \* largest exponent handed to __pow__ in OpSpec
MaxNin == 3         \* NetSpec: largest input arity of a network
MaxWidth == 2       \* NetSpec: largest number of neurons of a layer
MaxLayers == 2      \* NetSpec: largest number of layers
TrainEpochs == 2    \* TrainSpec: iterations of the training loop that are run
TrainSamples == 1   \* TrainSpec: how many of the samples xs, ys are used

\* 0.1, the learning rate, is 1 / LrDen.
LrDen == 10
\* One unit of the fixed-point grid is 1 / Scale.
Scale == LrDen * LrDen

\* Whole numbers used as leaf data by the expression scripts.
LeafVals == {-1 * Scale, 2 * Scale}
\* Whole numbers used as the operands a, b of one primitive operation.
OpVals == {-2 * Scale, -1 * Scale, 0, Scale, 2 * Scale}

(***************************************************************************)
(* Fixed-point arithmetic.                                                 *)
(***************************************************************************)
Abs(x) == IF x < 0 THEN -x ELSE x

\* One statement after another: x is computed once, and F continues with
\* its value.
With(x, F(_)) == CHOOSE y \in {F(v) : v \in {x}} : TRUE

\* n / d rounded to the nearest integer (d > 0).
RoundDiv(n, d) == (2 * n + d) \div (2 * d)

\* a * b on the grid.  (a \div Scale) * b is exact, so only the fractional
\* part of a is rounded; the split keeps intermediate products small.
MulF(a, b) == (a \div Scale) * b + RoundDiv((a % Scale) * b, Scale)

\* 1 / a on the grid (a # 0).
InvF(a) == IF a > 0 THEN RoundDiv(Scale * Scale, a) ELSE -RoundDiv(Scale * Scale, -a)

\* x ** n raises ZeroDivisionError for x = 0 and n < 0.
PowFails(x, n) == x = 0 /\ n < 0

RECURSIVE PowF(_, _)
\* x ** n for a whole exponent n >= -1.
PowF(x, n) ==
    IF n = 0 THEN Scale
    ELSE IF n < 0 THEN InvF(x)
    ELSE MulF(PowF(x, n - 1), x)

(***************************************************************************)
(* class Value                                                             *)
(***************************************************************************)
\* Value.__init__: gradient 0.0, previous = set(children).
Value(data, l, r, op, n) ==
    [data |-> data, l |-> l, r |-> r, op |-> op, n |-> n, grad |-> 0]

\* self.previous: a set, so an operand used twice appears once.
previous(ns, v) == {ns[v].l, ns[v].r} \ {0}

\* self + other, both Values; the new node is the last of the result.
add(ns, self, other) ==
    Append(ns, Value(ns[self].data + ns[other].data, self, other, "+", 0))

\* self * other, both Values.
mul(ns, self, other) ==
    Append(ns, Value(MulF(ns[self].data, ns[other].data), self, other, "*", 0))

\* self ** other, other an int or a float.
pow(ns, self, other) ==
    Append(ns, Value(PowF(ns[self].data, other), self, 0, "**", other))

\* (math.exp(2*x) - 1) / (math.exp(2*x) + 1) for x = i / Scale, i = 1 .. 299,
\* rounded to the grid; from x = 3.0 on the quotient rounds to 1.00.
TanhTab ==
    <<
       1, 2, 3, 4, 5, 6, 7, 8, 9, 10, 11, 12, 13, 14, 15, 16, 17, 18, 19, 20,
       21, 22, 23, 24, 24, 25, 26, 27, 28, 29, 30, 31, 32, 33, 34, 35, 35, 36, 37, 38,
       39, 40, 41, 41, 42, 43, 44, 45, 45, 46, 47, 48, 49, 49, 50, 51, 52, 52, 53, 54,
       54, 55, 56, 56, 57, 58, 58, 59, 60, 60, 61, 62, 62, 63, 64, 64, 65, 65, 66, 66,
       67, 68, 68, 69, 69, 70, 70, 71, 71, 72, 72, 73, 73, 74, 74, 74, 75, 75, 76, 76,
       77, 77, 77, 78, 78, 79, 79, 79, 80, 80, 80, 81, 81, 81, 82, 82, 82, 83, 83, 83,
       84, 84, 84, 85, 85, 85, 85, 86, 86, 86, 86, 87, 87, 87, 87, 88, 88, 88, 88, 89,
       89, 89, 89, 89, 90, 90, 90, 90, 90, 91, 91, 91, 91, 91, 91, 92, 92, 92, 92, 92,
       92, 92, 93, 93, 93, 93, 93, 93, 93, 94, 94, 94, 94, 94, 94, 94, 94, 94, 95, 95,
       95, 95, 95, 95, 95, 95, 95, 95, 96, 96, 96, 96, 96, 96, 96, 96, 96, 96, 96, 96,
       96, 97, 97, 97, 97, 97, 97, 97, 97, 97, 97, 97, 97, 97, 97, 97, 97, 97, 98, 98,
       98, 98, 98, 98, 98, 98, 98, 98, 98, 98, 98, 98, 98, 98, 98, 98, 98, 98, 98, 98,
       98, 98, 98, 98, 99, 99, 99, 99, 99, 99, 99, 99, 99, 99, 99, 99, 99, 99, 99, 99,
       99, 99, 99, 99, 99, 99, 99, 99, 99, 99, 99, 99, 99, 99, 99, 99, 99, 99, 99, 99,
       99, 99, 99, 99, 99, 99, 99, 99, 99, 99, 99, 99, 99, 99, 99, 99, 99, 99, 99
    >>

\* t of Value.tanh for the data x.
TanhF(x) ==
    IF x = 0 THEN 0
    ELSE IF Abs(x) > Len(TanhTab) THEN (IF x > 0 THEN Scale ELSE -1 * Scale)
    ELSE IF x > 0 THEN TanhTab[x] ELSE -1 * TanhTab[-x]

\* self.tanh()
tanh(ns, self) == Append(ns, Value(TanhF(ns[self].data), self, 0, "tanh", 0))

\* Value(other) for a raw number.
leaf(ns, x) == Append(ns, Value(x, 0, 0, "leaf", 0))

\* self + x and self * x for a raw number x: `other` is wrapped first.
addRaw(ns, self, x) == With(leaf(ns, x), LAMBDA n1 : add(n1, self, Len(n1)))

mulRaw(ns, self, x) == With(leaf(ns, x), LAMBDA n1 : mul(n1, self, Len(n1)))

\* __neg__: self * -1
neg(ns, self) == mulRaw(ns, self, -1 * Scale)

\* __sub__: self + (-other), other a Value
sub(ns, self, other) == With(neg(ns, other), LAMBDA n1 : add(n1, self, Len(n1)))

\* A test that lets every argument through.
AnyIsReal(arg) == TRUE

\* isinstance(other, (int, float)), on the type of the argument
IsIntOrFloat(arg) == arg.kind \in {"int", "float"}

\* The rule of __add__ with = in place of +=.
AddRuleOverwrite(ns, out) ==
    LET a == ns[out].l
        b == ns[out].r
        n1 == [ns EXCEPT ![a].grad = MulF(Scale, ns[out].grad)]
    IN  [n1 EXCEPT ![b].grad = MulF(Scale, n1[out].grad)]

\* __add__._backward
AddRule(ns, out) ==
    LET a == ns[out].l
        b == ns[out].r
        n1 == [ns EXCEPT ![a].grad = @ + MulF(Scale, ns[out].grad)]
    IN  [n1 EXCEPT ![b].grad = @ + MulF(Scale, n1[out].grad)]

\* __mul__._backward
MulRule(ns, out) ==
    LET a == ns[out].l
        b == ns[out].r
        n1 == [ns EXCEPT ![a].grad = @ + MulF(ns[b].data, ns[out].grad)]
    IN  [n1 EXCEPT ![b].grad = @ + MulF(n1[a].data, n1[out].grad)]

\* __pow__._backward: other * (self.data ** (other-1)) * out.gradient
PowRuleFails(ns, out) == PowFails(ns[ns[out].l].data, ns[out].n - 1)

PowRule(ns, out) ==
    LET a == ns[out].l
        n == ns[out].n
    IN  [ns EXCEPT ![a].grad = @ + MulF(n * PowF(ns[a].data, n - 1), ns[out].grad)]

\* tanh._backward: (1 - t**2) * out.gradient, t the output's data
TanhRule(ns, out) ==
    LET a == ns[out].l
        t == ns[out].data
    IN  [ns EXCEPT ![a].grad = @ + MulF(Scale - PowF(t, 2), ns[out].grad)]

\* node._backward(): whether it raises, and the arena it leaves.
RuleFails(ns, v) == ns[v].op = "**" /\ PowRuleFails(ns, v)

Rule(ns, v) ==
    CASE ns[v].op = "+" -> AddRule(ns, v)
      [] ns[v].op = "*" -> MulRule(ns, v)
      [] ns[v].op = "**" -> PowRule(ns, v)
      [] ns[v].op = "tanh" -> TanhRule(ns, v)
      [] OTHER -> ns

\* The order in which `for child in value.previous` yields the children: a
\* set of objects iterates in an order the program does not control; `flip`
\* tells, per node, which of the two orders it is.
Children(ns, v, flip) ==
    LET l == ns[v].l
        r == ns[v].r
    IN  IF l = 0 THEN <<>>
        ELSE IF r = 0 \/ r = l THEN <<l>>
        ELSE IF flip[v] THEN <<r, l>> ELSE <<l, r>>

RECURSIVE build_topo_revisit(_, _, _, _)
\* build_topo without the test on `visited`.
build_topo_revisit(ns, value, st, flip) ==
    LET cs == Children(ns, value, flip)
        First(s0) == IF Len(cs) >= 1 THEN build_topo_revisit(ns, cs[1], s0, flip) ELSE s0
        Second(s1) == IF Len(cs) >= 2 THEN build_topo_revisit(ns, cs[2], s1, flip) ELSE s1
    IN  With(With(With(st, First), Second),
             LAMBDA s2 : [s2 EXCEPT !.topo = Append(@, value)])

RECURSIVE build_topo(_, _, _, _)
\* build_topo(value), with the closure's `visited` and `topo` as st.
build_topo(ns, value, st, flip) ==
    IF value \in st.visited THEN st
    ELSE LET cs == Children(ns, value, flip)
             First(s0) == IF Len(cs) >= 1 THEN build_topo(ns, cs[1], s0, flip) ELSE s0
             Second(s1) == IF Len(cs) >= 2 THEN build_topo(ns, cs[2], s1, flip) ELSE s1
         IN  With(With(With([st EXCEPT !.visited = @ \cup {value}], First), Second),
                  LAMBDA s2 : [s2 EXCEPT !.topo = Append(@, value)])

\* The list in the order it was built.
reversed_same(s) == s

\* reversed(topo)
reversed(s) == [i \in 1..Len(s) |-> s[Len(s) + 1 - i]]

\* self.gradient = 1.0
Seed(ns, v) == [ns EXCEPT ![v].grad = Scale]

(***************************************************************************)
(* Value.backward(), one step per statement of its loop.                   *)
(***************************************************************************)
\* Only a node with two distinct children has two orders.
Flips(ns) ==
    LET two == {v \in 1..Len(ns) : ns[v].r # 0 /\ ns[v].r # ns[v].l}
    IN  {[v \in 1..Len(ns) |-> v \in s] : s \in SUBSET two}

\* Lines 80-91: build the order, then seed the root.
BackwardBegin(v, flip) ==
    /\ topo' = build_topo(nodes, v, [visited |-> {}, topo |-> <<>>], flip).topo
    /\ idx' = Len(topo')
    /\ root' = v
    /\ nodes' = Seed(nodes, v)
    /\ calls' = <<>>
    /\ runs' = runs + 1
    /\ pc' = "rules"

\* Lines 92-93: one iteration of `for node in reversed(topo)`.
RunRule ==
    /\ pc = "rules"
    /\ idx > 0
    /\ LET v == reversed(topo)[Len(topo) + 1 - idx]
       IN  IF RuleFails(nodes, v)
           THEN /\ err' = "ZeroDivisionError"
                /\ pc' = "raised"
                /\ UNCHANGED <<nodes, idx>>
                /\ calls' = Append(calls, v)
           ELSE /\ nodes' = Rule(nodes, v)
                /\ calls' = Append(calls, v)
                /\ idx' = idx - 1
                /\ pc' = IF idx = 1 THEN "done" ELSE "rules"
                /\ err' = err
    /\ UNCHANGED <<root, topo, runs, saved, lastOp, net, rng, inp, res, epoch, loss>>

(***************************************************************************)
(* Spec: expression scripts.  A script builds Values from raw numbers with *)
(* + and *, then calls backward() on one of them.                          *)
(***************************************************************************)
NoOp == [name |-> "", a |-> 0, b |-> 0, arg |-> [kind |-> "none", val |-> 0]]
NoRes == [kind |-> "none", items |-> <<>>]

Init ==
    /\ nodes = <<>>
    /\ pc = "build"
    /\ root = 0
    /\ topo = <<>>
    /\ idx = 0
    /\ calls = <<>>
    /\ err = ""
    /\ runs = 0
    /\ saved = <<>>
    /\ lastOp = NoOp
    /\ net = <<>>
    /\ rng = 0
    /\ inp = <<>>
    /\ res = NoRes
    /\ epoch = 0
    /\ loss = 0

Engine == <<root, topo, idx, calls, err, runs, saved>>
Rest == <<lastOp, net, rng, inp, res, epoch, loss>>

\* x = Value(v)
NewLeaf ==
    /\ pc = "build"
    /\ Len(nodes) < MaxNodes
    /\ \E x \in LeafVals : nodes' = leaf(nodes, x)
    /\ UNCHANGED <<pc, Engine, Rest>>

\* z = x + y
NewAdd ==
    /\ pc = "build"
    /\ Len(nodes) < MaxNodes
    /\ \E a, b \in 1..Len(nodes) : nodes' = add(nodes, a, b)
    /\ UNCHANGED <<pc, Engine, Rest>>

\* z = x * y
NewMul ==
    /\ pc = "build"
    /\ Len(nodes) < MaxNodes
    /\ \E a, b \in 1..Len(nodes) : nodes' = mul(nodes, a, b)
    /\ UNCHANGED <<pc, Engine, Rest>>

\* z.backward()
Backward ==
    /\ pc = "build"
    /\ \E v \in 1..Len(nodes) : \E flip \in Flips(nodes) : BackwardBegin(v, flip)
    /\ UNCHANGED <<err, saved, Rest>>

Next == NewLeaf \/ NewAdd \/ NewMul \/ Backward \/ RunRule

Spec == Init /\ [][Next]_vars

(***************************************************************************)
(* Observers of a graph.                                                   *)
(***************************************************************************)
RECURSIVE Reach(_, _)
\* The nodes reachable from v through predecessor edges, v included.
Reach(ns, v) ==
    {v} \cup UNION {Reach(ns, c) : c \in previous(ns, v)}

Count(s, x) == Cardinality({i \in DOMAIN s : s[i] = x})

Leaves(ns) == {v \in 1..Len(ns) : ns[v].op = "leaf"}

RECURSIVE PathSum(_, _, _)
\* The sum, over every path from v to x, of the product of the local
\* derivatives along the path (an operand used twice gives two paths).
PathSum(ns, v, x) ==
    IF v = x THEN Scale
    ELSE IF ns[v].op = "+"
         THEN PathSum(ns, ns[v].l, x) + PathSum(ns, ns[v].r, x)
    ELSE IF ns[v].op = "*"
         THEN MulF(ns[ns[v].r].data, PathSum(ns, ns[v].l, x))
              + MulF(ns[ns[v].l].data, PathSum(ns, ns[v].r, x))
    ELSE 0

\* C1: during backward(root), a node's rule is invoked only after the rule
\* of every node of the graph that depends on it, directly or transitively,
\* has been invoked; diamonds included.
C1_DependentsFirst ==
    \A j \in 1..Len(calls) :
        \A u \in Reach(nodes, root) :
            calls[j] \in Reach(nodes, u) \ {u}
                => \E i \in 1..(j - 1) : calls[i] = u

\* A finished backward over a graph in which some node is shared by two
\* dependents, one of which also reaches it through the other.
C1_Witness ==
    /\ pc = "done"
    /\ \E v, u, w \in 1..Len(nodes) :
          /\ u # w
          /\ {u, w} \subseteq Reach(nodes, root)
          /\ v \in previous(nodes, u)
          /\ v \in previous(nodes, w)
          /\ u \in previous(nodes, w)

\* C9: backward(root) sets root.gradient to 1.0 before any rule runs, and
\* then invokes the rule of every node reachable from root exactly once and
\* of no other node.
C9_EachReachableOnce ==
    /\ (pc = "rules" /\ calls = <<>>) => nodes[root].grad = Scale
    /\ pc \in {"rules", "done"} =>
          \A v \in 1..Len(nodes) :
              /\ Count(calls, v) <= 1
              /\ Count(calls, v) = 1 => v \in Reach(nodes, root)
    /\ pc = "done" =>
          \A v \in Reach(nodes, root) : Count(calls, v) = 1

\* A finished backward where a node is reached along two paths and another
\* node of the arena is not reachable from the root.
C9_Witness ==
    /\ pc = "done"
    /\ Reach(nodes, root) # 1..Len(nodes)
    /\ \E v \in Reach(nodes, root) : \E x \in Leaves(nodes) :
          /\ nodes[v].op = "+"
          /\ PathSum(nodes, v, x) >= 2 * Scale

\* C3: after one backward on an output built with + and *, every leaf's
\* gradient is the sum of the contributions of all paths from the output to
\* the leaf.
C3_SumOverPaths ==
    (pc = "done" /\ runs = 1) =>
        \A x \in Leaves(nodes) : nodes[x].grad = PathSum(nodes, root, x)

\* b = a*a + a: the gradient of a is 2 * a.data + 1.
C3_Witness ==
    /\ pc = "done"
    /\ runs = 1
    /\ \E x \in Leaves(nodes) : \E m \in 1..Len(nodes) :
          /\ nodes[m].op = "*" /\ nodes[m].l = x /\ nodes[m].r = x
          /\ nodes[root].op = "+" /\ nodes[root].l = m /\ nodes[root].r = x
          /\ nodes[x].grad = 2 * nodes[x].data + Scale

(***************************************************************************)
(* RerunSpec: the scripts of Spec, followed by the driver's reset of the   *)
(* parameter gradients and a second backward() on the same root.           *)
(***************************************************************************)
\* A reset that resets nothing.
ZeroGradNone(ns, ps) == ns

\* for p in ps: p.gradient = 0.0
ZeroGrad(ns, ps) ==
    [v \in 1..Len(ns) |-> IF v \in ps THEN [ns[v] EXCEPT !.grad = 0] ELSE ns[v]]

\* The parameters of an expression script are its leaves.
ZeroParams ==
    /\ pc = "done"
    /\ runs = 1
    /\ saved' = [v \in 1..Len(nodes) |-> nodes[v].grad]
    /\ nodes' = ZeroGrad(nodes, Leaves(nodes))
    /\ pc' = "zeroed"
    /\ UNCHANGED <<root, topo, idx, calls, err, runs, Rest>>

BackwardAgain ==
    /\ pc = "zeroed"
    /\ \E flip \in Flips(nodes) : BackwardBegin(root, flip)
    /\ UNCHANGED <<err, saved, Rest>>

RerunNext == Next \/ ZeroParams \/ BackwardAgain

RerunSpec == Init /\ [][RerunNext]_vars

\* C4: after backward(root), a reset of the parameter gradients and a second
\* backward(root), every parameter has the gradient it had after the first.
C4_SameGradients ==
    (pc = "done" /\ runs = 2) =>
        \A x \in Leaves(nodes) : nodes[x].grad = saved[x]

(***************************************************************************)
(* OpSpec: one primitive operation applied to the fresh leaves a (node 1)  *)
(* and b (node 2), then backward() on the result.                          *)
(***************************************************************************)
Exponents ==
    [kind : {"int", "float"}, val : 0..MaxExp]
        \cup [kind : {"str", "Value", "NoneType"}, val : {0}]

OpInit ==
    /\ \E a, b \in OpVals : nodes = leaf(leaf(<<>>, a), b)
    /\ pc = "op"
    /\ root = 0
    /\ topo = <<>>
    /\ idx = 0
    /\ calls = <<>>
    /\ err = ""
    /\ runs = 0
    /\ saved = <<>>
    /\ lastOp = NoOp
    /\ net = <<>>
    /\ rng = 0
    /\ inp = <<>>
    /\ res = NoRes
    /\ epoch = 0
    /\ loss = 0

OpRest == <<net, rng, inp, res, epoch, loss>>

Applied(name, arg) == [name |-> name, a |-> 1, b |-> 2, arg |-> arg]

\* c = a + b
OpAdd ==
    /\ pc = "op"
    /\ nodes' = add(nodes, 1, 2)
    /\ lastOp' = Applied("add", NoOp.arg)
    /\ pc' = "built"
    /\ UNCHANGED <<Engine, OpRest>>

\* c = a * b
OpMul ==
    /\ pc = "op"
    /\ nodes' = mul(nodes, 1, 2)
    /\ lastOp' = Applied("mul", NoOp.arg)
    /\ pc' = "built"
    /\ UNCHANGED <<Engine, OpRest>>

\* c = -a
OpNeg ==
    /\ pc = "op"
    /\ nodes' = neg(nodes, 1)
    /\ lastOp' = Applied("neg", NoOp.arg)
    /\ pc' = "built"
    /\ UNCHANGED <<Engine, OpRest>>

\* c = a - b
OpSub ==
    /\ pc = "op"
    /\ nodes' = sub(nodes, 1, 2)
    /\ lastOp' = Applied("sub", NoOp.arg)
    /\ pc' = "built"
    /\ UNCHANGED <<Engine, OpRest>>

\* c = a ** n: the assert of line 40, then lines 41-47.
OpPow ==
    /\ pc = "op"
    /\ \E arg \in Exponents :
          /\ lastOp' = Applied("pow", arg)
          /\ IF ~IsIntOrFloat(arg)
             THEN /\ err' = "AssertionError"
                  /\ pc' = "raised"
                  /\ nodes' = nodes
             ELSE IF PowFails(nodes[1].data, arg.val)
             THEN /\ err' = "ZeroDivisionError"
                  /\ pc' = "raised"
                  /\ nodes' = nodes
             ELSE /\ err' = err
                  /\ pc' = "built"
                  /\ nodes' = pow(nodes, 1, arg.val)
    /\ UNCHANGED <<root, topo, idx, calls, runs, saved, OpRest>>

\* c.backward()
OpBackward ==
    /\ pc = "built"
    /\ \E flip \in Flips(nodes) : BackwardBegin(Len(nodes), flip)
    /\ UNCHANGED <<err, saved, lastOp, OpRest>>

OpNext == OpAdd \/ OpMul \/ OpNeg \/ OpSub \/ OpPow \/ OpBackward \/ RunRule

OpSpec == OpInit /\ [][OpNext]_vars

\* C2: backward on the result of a primitive operation leaves the operands
\* with the analytic partial derivatives: add 1 and 1; multiply b.data and
\* a.data; power n * a.data ** (n-1); negate -1; subtract 1 and -1.
C2_LocalDerivatives ==
    (runs = 1 /\ pc \in {"done", "raised"}) =>
        /\ pc = "done"
        /\ lastOp.name = "add" => nodes[1].grad = Scale /\ nodes[2].grad = Scale
        /\ lastOp.name = "mul" =>
              nodes[1].grad = nodes[2].data /\ nodes[2].grad = nodes[1].data
        /\ lastOp.name = "pow" =>
              nodes[1].grad = lastOp.arg.val * PowF(nodes[1].data, lastOp.arg.val - 1)
        /\ lastOp.name = "neg" => nodes[1].grad = -1 * Scale
        /\ lastOp.name = "sub" =>
              nodes[1].grad = Scale /\ nodes[2].grad = -1 * Scale

\* C8: a ** n with n neither an int nor a float fails at the call with an
\* assertion error, creating no node and leaving a as it was; with an int or
\* a float n it does not fail that way.
C8_PowRejectsNonReal ==
    [][(pc = "op" /\ lastOp'.name = "pow") =>
          IF lastOp'.arg.kind \in {"int", "float"}
          THEN err' # "AssertionError"
          ELSE /\ err' = "AssertionError"
               /\ pc' = "raised"
               /\ nodes' = nodes
               /\ runs' = 0]_vars

\* A call a ** "x" has just failed.
C8_Witness ==
    /\ pc = "raised"
    /\ err = "AssertionError"
    /\ lastOp.name = "pow"
    /\ lastOp.arg.kind = "str"
    /\ Len(nodes) = 2

(***************************************************************************)
(* Neuron, Layer, MLP                                                      *)
(*                                                                         *)
(* A vector handed to a call, or returned by one, is [kind, items]: kind   *)
(* "list" for a Python list, "value" for a single Value; an item is a      *)
(* Value (isval, v its node) or a raw number (v its value).                *)
(***************************************************************************)
Min(a, b) == IF a < b THEN a ELSE b

Range(f) == {f[i] : i \in DOMAIN f}

\* random.uniform(-1, 1): a generator of period Len(RandVals), seeded by rng.
RandVals == <<50, -30, 80, -70, 10>>

Uniform(r) == RandVals[(r % Len(RandVals)) + 1]

AsValue(v) == [isval |-> TRUE, v |-> v]
AsRaw(x) == [isval |-> FALSE, v |-> x]
ListOf(items) == [kind |-> "list", items |-> items]
OneValue(v) == [kind |-> "value", items |-> <<AsValue(v)>>]
Returned(ns, ret) == [ns |-> ns, ret |-> ret, err |-> ""]
Raised(ns, e) == [ns |-> ns, ret |-> NoRes, err |-> e]

\* Neuron.__init__: nin weights, then the bias.
NeuronInit(st, nin) ==
    LET base == Len(st.ns)
        fresh == [i \in 1..(nin + 1) |-> Value(Uniform(st.rng + i - 1), 0, 0, "leaf", 0)]
    IN  [st |-> [ns |-> st.ns \o fresh, rng |-> (st.rng + nin + 1) % Len(RandVals)],
         obj |-> [w |-> [i \in 1..nin |-> base + i], b |-> base + nin + 1]]

RECURSIVE LayerInit(_, _, _)
\* Layer.__init__: nout neurons of arity nin.
LayerInit(st, nin, nout) ==
    IF nout = 0 THEN [st |-> st, obj |-> <<>>]
    ELSE With(LayerInit(st, nin, nout - 1), LAMBDA before :
         With(NeuronInit(before.st, nin), LAMBDA one :
         [st |-> one.st, obj |-> Append(before.obj, one.obj)]))

RECURSIVE MLPLayersInit(_, _, _)
\* MLP.__init__: layers 1..k of sz = [nin] + nouts.
MLPLayersInit(st, sz, k) ==
    IF k = 0 THEN [st |-> st, obj |-> <<>>]
    ELSE With(MLPLayersInit(st, sz, k - 1), LAMBDA before :
         With(LayerInit(before.st, sz[k], sz[k + 1]), LAMBDA one :
         [st |-> one.st, obj |-> Append(before.obj, one.obj)]))

MLPInit(seed, nin, nouts) ==
    MLPLayersInit([ns |-> <<>>, rng |-> seed], <<nin>> \o nouts, Len(nouts))

\* zip(self.w, x) stops at the shorter of the two.
ZipLen(w, items) == Min(Len(w), Len(items))

RECURSIVE SumProducts(_, _, _, _, _)
\* sum((wi*xi for wi, xi in zip(self.w, x)), self.b), from pair i on, with
\* the running sum `act`.
SumProducts(ns, w, items, i, act) ==
    IF i > ZipLen(w, items) THEN [ns |-> ns, act |-> act]
    ELSE With(IF items[i].isval THEN mul(ns, w[i], items[i].v)
              ELSE mulRaw(ns, w[i], items[i].v), LAMBDA n1 :
         With(add(n1, act, Len(n1)), LAMBDA n2 :
         SumProducts(n2, w, items, i + 1, Len(n2))))

\* Neuron.__call__; zip raises TypeError on an x that is not iterable.
NeuronCall(ns, neuron, x) ==
    IF x.kind # "list" THEN Raised(ns, "TypeError")
    ELSE With(SumProducts(ns, neuron.w, x.items, 1, neuron.b), LAMBDA s :
         With(tanh(s.ns, s.act), LAMBDA n1 :
         Returned(n1, OneValue(Len(n1)))))

RECURSIVE LayerOuts(_, _, _, _, _)
\* outs = [n(x) for n in self.neurons], from neuron k on.
LayerOuts(ns, layer, x, k, outs) ==
    IF k > Len(layer) THEN Returned(ns, ListOf(outs))
    ELSE With(NeuronCall(ns, layer[k], x), LAMBDA one :
         IF one.err # "" THEN one
         ELSE LayerOuts(one.ns, layer, x, k + 1, outs \o one.ret.items))

\* Layer.__call__: outs[0] if len(outs) == 1 else outs
LayerCall(ns, layer, x) ==
    With(LayerOuts(ns, layer, x, 1, <<>>), LAMBDA all :
    IF all.err # "" THEN all
    ELSE IF Len(all.ret.items) = 1
         THEN Returned(all.ns, OneValue(all.ret.items[1].v))
         ELSE all)

RECURSIVE MLPFold(_, _, _, _)
\* MLP.__call__: for layer in self.layers: x = layer(x), from layer i on.
MLPFold(ns, layers, x, i) ==
    IF i > Len(layers) THEN Returned(ns, x)
    ELSE With(LayerCall(ns, layers[i], x), LAMBDA one :
         IF one.err # "" THEN one
         ELSE MLPFold(one.ns, layers, one.ret, i + 1))

MLPCall(ns, layers, x) == MLPFold(ns, layers, x, 1)

\* Neuron.parameters, Layer.parameters, MLP.parameters (as a set of nodes).
NeuronParameters(neuron) == neuron.w \o <<neuron.b>>

LayerParameters(layer) ==
    UNION {Range(NeuronParameters(layer[j])) : j \in 1..Len(layer)}

Parameters(layers) ==
    UNION {LayerParameters(layers[i]) : i \in 1..Len(layers)}

(***************************************************************************)
(* NetSpec: a network of some shape is built, then a Neuron, a Layer or    *)
(* the whole MLP is called once on a vector of raw numbers.                *)
(***************************************************************************)
Shapes ==
    UNION {[1..k -> 1..MaxWidth] : k \in 1..MaxLayers}

InVals == {Scale, -2 * Scale}

RawInputs ==
    UNION {[1..k -> InVals] : k \in 0..(MaxNin + 1)}

RawList(xs) == ListOf([i \in 1..Len(xs) |-> AsRaw(xs[i])])

NetInit ==
    /\ \E seed \in 0..(Len(RandVals) - 1) : \E nin \in 0..MaxNin : \E nouts \in Shapes :
          \E m \in {MLPInit(seed, nin, nouts)} :
              /\ nodes = m.st.ns
              /\ net = m.obj
              /\ rng = m.st.rng
    /\ pc = "ready"
    /\ root = 0
    /\ topo = <<>>
    /\ idx = 0
    /\ calls = <<>>
    /\ err = ""
    /\ runs = 0
    /\ saved = <<>>
    /\ lastOp = NoOp
    /\ inp = NoRes
    /\ res = NoRes
    /\ epoch = 0
    /\ loss = 0

Called(name, i, j) == [name |-> name, a |-> i, b |-> j, arg |-> NoOp.arg]

Finish(out) ==
    /\ nodes' = out.ns
    /\ res' = out.ret
    /\ err' = out.err
    /\ pc' = "called"

NetRest == <<root, topo, idx, calls, runs, saved, net, rng, epoch, loss>>

\* net.layers[i].neurons[j](x)
CallNeuron ==
    /\ pc = "ready"
    /\ \E i \in 1..Len(net) : \E j \in 1..Len(net[i]) : \E xs \in RawInputs :
          /\ inp' = RawList(xs)
          /\ lastOp' = Called("neuron", i, j)
          /\ \E out \in {NeuronCall(nodes, net[i][j], RawList(xs))} : Finish(out)
    /\ UNCHANGED NetRest

\* net.layers[i](x)
CallLayer ==
    /\ pc = "ready"
    /\ \E i \in 1..Len(net) : \E xs \in RawInputs :
          /\ inp' = RawList(xs)
          /\ lastOp' = Called("layer", i, 0)
          /\ \E out \in {LayerCall(nodes, net[i], RawList(xs))} : Finish(out)
    /\ UNCHANGED NetRest

\* net(x)
CallMLP ==
    /\ pc = "ready"
    /\ \E xs \in RawInputs :
          /\ inp' = RawList(xs)
          /\ lastOp' = Called("mlp", 0, 0)
          /\ \E out \in {MLPCall(nodes, net, RawList(xs))} : Finish(out)
    /\ UNCHANGED NetRest

NetNext == CallNeuron \/ CallLayer \/ CallMLP

NetSpec == NetInit /\ [][NetNext]_vars

\* The arity the called object was built with.
Arity ==
    IF lastOp.name = "mlp" THEN Len(net[1][1].w)
    ELSE Len(net[lastOp.a][1].w)

RECURSIVE BiasOf(_, _)
\* The bias at the bottom of the sum a neuron's output was computed from.
BiasOf(ns, v) == IF ns[v].op = "leaf" THEN v ELSE BiasOf(ns, ns[v].l)

RECURSIVE FactorsOf(_, _)
\* The second operands of the products summed into a neuron's output.
FactorsOf(ns, v) ==
    IF ns[v].op = "tanh" THEN FactorsOf(ns, ns[v].l)
    ELSE IF ns[v].op = "+" THEN Append(FactorsOf(ns, ns[v].l), ns[ns[v].r].r)
    ELSE <<>>

\* The output node of neuron j of layer i in the arena.
OutputOf(ns, i, j) ==
    CHOOSE v \in 1..Len(ns) : ns[v].op = "tanh" /\ BiasOf(ns, v) = net[i][j].b

\* C5: a Neuron, Layer or MLP called with a vector whose length differs from
\* the arity it was built with fails with an error; it returns no output.
C5_LengthMismatchFails ==
    (pc = "called" /\ Len(inp.items) # Arity) => (err # "" /\ res = NoRes)

\* C6: a Layer of nout >= 1 neurons returns a list of exactly nout outputs,
\* the k-th being neuron k's output on the inputs; for nout = 1 as well.
C6_LayerReturnsList ==
    (pc = "called" /\ lastOp.name = "layer") =>
        LET layer == net[lastOp.a]
        IN  /\ err = ""
            /\ res.kind = "list"
            /\ Len(res.items) = Len(layer)
            /\ \A k \in 1..Len(layer) :
                  /\ res.items[k].isval
                  /\ nodes[res.items[k].v].op = "tanh"
                  /\ BiasOf(nodes, res.items[k].v) = layer[k].b

\* C7: an MLP of input size n >= 1 and layer sizes >= 1, called on n inputs,
\* completes without error, hands layer i's outputs, in order, to every
\* neuron of layer i+1, and returns the last layer's outputs as a list of
\* the last size.
C7_NetworkFolds ==
    (pc = "called" /\ lastOp.name = "mlp" /\ Arity >= 1 /\ Len(inp.items) = Arity) =>
        /\ err = ""
        /\ res.kind = "list"
        /\ Len(res.items) = Len(net[Len(net)])
        /\ \A k \in 1..Len(res.items) :
              res.items[k].v = OutputOf(nodes, Len(net), k)
        /\ \A i \in 1..(Len(net) - 1) : \A j \in 1..Len(net[i + 1]) :
              FactorsOf(nodes, OutputOf(nodes, i + 1, j))
                  = [k \in 1..Len(net[i]) |-> OutputOf(nodes, i, k)]

(***************************************************************************)
(* TrainSpec: the script of lines 136-161, on a network of the sizes       *)
(* TrainSizes and the first TrainSamples samples, each cut to the          *)
(* network's input size.                                                   *)
(***************************************************************************)
\* sz = [nin] + nouts of the network that is trained.
TrainSizes == <<1, 1>>

\* xs and ys of lines 138-143.
XS ==
    << <<2 * Scale, 3 * Scale, -1 * Scale>>,
       <<3 * Scale, -1 * Scale, Scale \div 2>>,
       <<Scale \div 2, Scale, Scale>>,
       <<Scale, Scale, -1 * Scale>> >>

YS == <<Scale, -1 * Scale, -1 * Scale, Scale>>

Sample(i) == RawList(SubSeq(XS[i], 1, TrainSizes[1]))

\* 0.1 on the grid.
LearningRate == Scale \div LrDen

RECURSIVE Predictions(_, _, _, _)
\* ypred = [n(x) for x in xs], from sample i on.
Predictions(ns, layers, i, ypred) ==
    IF i > TrainSamples THEN [ns |-> ns, ypred |-> ypred, err |-> ""]
    ELSE With(MLPCall(ns, layers, Sample(i)), LAMBDA one :
         IF one.err # "" THEN [ns |-> one.ns, ypred |-> ypred, err |-> one.err]
         ELSE Predictions(one.ns, layers, i + 1, Append(ypred, one.ret)))

RECURSIVE LossSum(_, _, _, _)
\* loss = sum((yout - ygt)**2 for ygt, yout in zip(ys, ypred)), from sample
\* i on, with the running sum acc (0: the int 0 that sum starts from).
\* yout - ygt is yout + (-ygt) with the raw number -ygt wrapped; a list
\* yout has no such operation.  0 + v is v.__radd__(0), that is v + 0.
LossSum(ns, ypred, i, acc) ==
    IF i > Min(Len(YS), Len(ypred)) THEN [ns |-> ns, loss |-> acc, err |-> ""]
    ELSE IF ypred[i].kind # "value" THEN [ns |-> ns, loss |-> 0, err |-> "TypeError"]
    ELSE With(addRaw(ns, ypred[i].items[1].v, -1 * YS[i]), LAMBDA n1 :
         With(pow(n1, Len(n1), 2), LAMBDA n2 :
         With(IF acc = 0 THEN addRaw(n2, Len(n2), 0) ELSE add(n2, acc, Len(n2)),
              LAMBDA n3 : LossSum(n3, ypred, i + 1, Len(n3)))))

\* p.data += -0.1 * p.gradient for every p of ps
Descend(ns, ps) ==
    [v \in 1..Len(ns) |->
        IF v \in ps
        THEN [ns[v] EXCEPT !.data = @ + MulF(-1 * LearningRate, ns[v].grad)]
        ELSE ns[v]]

\* Line 136: n = MLP(...), the weights drawn by the seeded generator.
TrainInit ==
    /\ \E seed \in 0..(Len(RandVals) - 1) :
          \E m \in {MLPInit(seed, TrainSizes[1], SubSeq(TrainSizes, 2, Len(TrainSizes)))} :
              /\ nodes = m.st.ns
              /\ net = m.obj
              /\ rng = m.st.rng
    /\ pc = "forward"
    /\ root = 0
    /\ topo = <<>>
    /\ idx = 0
    /\ calls = <<>>
    /\ err = ""
    /\ runs = 0
    /\ saved = <<>>
    /\ lastOp = NoOp
    /\ inp = NoRes
    /\ res = NoRes
    /\ epoch = 0
    /\ loss = 0

\* Lines 147-148.  The graph of the previous iteration is garbage once
\* ypred and loss are rebound: only the parameters stay in the arena.
Forward ==
    /\ pc = "forward"
    /\ \E kept \in {SubSeq(nodes, 1, Cardinality(Parameters(net)))} :
       \E preds \in {Predictions(kept, net, 1, <<>>)} :
       \E sum \in {IF preds.err # "" THEN [ns |-> preds.ns, loss |-> 0, err |-> preds.err]
                    ELSE LossSum(preds.ns, preds.ypred, 1, 0)} :
          IF sum.err # ""
          THEN nodes' = sum.ns /\ err' = sum.err /\ loss' = 0 /\ pc' = "raised"
          ELSE nodes' = sum.ns /\ err' = err /\ loss' = sum.loss /\ pc' = "zero"
    /\ calls' = <<>>
    /\ runs' = 0
    /\ UNCHANGED <<root, topo, idx, saved, lastOp, net, rng, inp, res, epoch>>

\* Lines 151-152.
ZeroGradients ==
    /\ pc = "zero"
    /\ nodes' = ZeroGrad(nodes, Parameters(net))
    /\ saved' = [v \in 1..Len(nodes) |-> nodes[v].grad]
    /\ pc' = "backward"
    /\ UNCHANGED <<root, topo, idx, calls, err, runs, lastOp, net, rng, inp, res,
                   epoch, loss>>

\* Line 154: loss.backward(); its loop is RunRule.
LossBackward ==
    /\ pc = "backward"
    /\ \E flip \in Flips(nodes) : BackwardBegin(loss, flip)
    /\ UNCHANGED <<err, saved, Rest>>

\* Lines 157-158.
Update ==
    /\ pc = "done"
    /\ nodes' = Descend(nodes, Parameters(net))
    /\ pc' = "show"
    /\ UNCHANGED <<root, topo, idx, calls, err, runs, saved, lastOp, net, rng,
                   inp, res, epoch, loss>>

\* Line 161 and the loop of line 145: print(k, loss.data), next k.
ShowEpoch ==
    /\ pc = "show"
    /\ res' = ListOf(<<AsRaw(epoch), AsRaw(nodes[loss].data)>>)
    /\ epoch' = epoch + 1
    /\ pc' = IF epoch + 1 < TrainEpochs THEN "forward" ELSE "end"
    /\ UNCHANGED <<nodes, root, topo, idx, calls, err, runs, saved, lastOp, net,
                   rng, inp, loss>>

TrainNext == Forward \/ ZeroGradients \/ LossBackward \/ RunRule \/ Update \/ ShowEpoch

TrainSpec == TrainInit /\ [][TrainNext]_vars

RECURSIVE RunRules(_, _, _)
\* The rules of the nodes order[i..] applied in turn.
RunRules(ns, order, i) ==
    IF i > Len(order) THEN ns ELSE RunRules(Rule(ns, order[i]), order, i + 1)

\* The gradients one backward(v) leaves on a graph whose gradients are all 0.
FreshGradients(ns, v) ==
    LET zero == [u \in 1..Len(ns) |-> [ns[u] EXCEPT !.grad = 0]]
        seeded == [zero EXCEPT ![v].grad = Scale]
        order == build_topo(ns, v, [visited |-> {}, topo |-> <<>>],
                            [u \in 1..Len(ns) |-> FALSE]).topo
    IN  RunRules(seeded, [i \in 1..Len(order) |-> order[Len(order) + 1 - i]], 1)

\* C10: every iteration of the training loop runs forward, reset of the
\* parameter gradients, backward, update, in this order; when a parameter is
\* updated its gradient is that of this iteration's loss alone; and the
\* update is p.data := p.data - 0.1 * p.gradient, once per iteration.
C10_StepOrder ==
    /\ pc = "forward" =>
          /\ pc' = "zero"
          /\ loss' \in 1..Len(nodes') \ Parameters(net)
          /\ Parameters(net) \subseteq Reach(nodes', loss')
          /\ \A p \in Parameters(net) : nodes'[p] = nodes[p]
          /\ \A v \in 1..Len(nodes') : v \notin Parameters(net) => nodes'[v].grad = 0
    /\ pc = "zero" =>
          /\ pc' = "backward"
          /\ \A p \in Parameters(net) : nodes'[p].grad = 0
    /\ pc = "backward" => pc' = "rules" /\ root' = loss
    /\ pc = "rules" => pc' \in {"rules", "done"}
    /\ pc = "done" =>
          /\ pc' = "show"
          /\ \A p \in Parameters(net) :
                nodes'[p].data = nodes[p].data + RoundDiv(-1 * nodes[p].grad, LrDen)
          /\ \A v \in 1..Len(nodes) : nodes'[v].grad = nodes[v].grad
    /\ pc # "done" =>
          \A p \in Parameters(net) : nodes'[p].data = nodes[p].data
    /\ pc = "show" =>
          /\ nodes' = nodes
          /\ epoch' = epoch + 1
          /\ pc' \in {"forward", "end"}

C10_TrainingLoop ==
    /\ [](pc = "done" =>
            \A p \in Parameters(net) :
                nodes[p].grad = FreshGradients(nodes, loss)[p].grad)
    /\ [][C10_StepOrder]_vars

\* The second iteration is about to update a parameter whose gradient was
\* not 0 before the reset of this iteration and is not 0 now.
C10_Witness ==
    /\ pc = "done"
    /\ epoch = 1
    /\ \E p \in Parameters(net) : saved[p] # 0 /\ nodes[p].grad # 0

====
